---------------------------- MODULE Spec2Model ----------------------------
(***************************************************************************)
(* Model of the processing core of rust-cli (src/src/processor.rs) and of  *)
(* the part of its caller (src/src/main.rs) that consumes the result.      *)
(*                                                                         *)
(* process(path, threshold, verbose) reads a CSV file into records, runs a *)
(* rayon filter/fold/reduce over them (the global aggregation), optionally *)
(* runs a rayon for_each that updates a Mutex<HashMap> (the grouped        *)
(* aggregation), and assembles a ProcessingStats.                          *)
(*                                                                         *)
(* Numbers of type f64 are modelled by a binary floating-point format with *)
(* MantBits bits of precision and round-to-nearest-even: a model float is  *)
(* an integer k standing for k times the smallest positive number of the   *)
(* format.  Every arithmetic result is rounded as f64 rounds it, so that   *)
(* the order of additions is observable.  Infinities and NaN are left out. *)
(*                                                                         *)
(* A String is a sequence of bytes, compared as Rust compares strings.     *)
(***************************************************************************)
EXTENDS Integers, Sequences, FiniteSets, TLC

\* ------------------------------------------------------------------ bounds
MaxRecords == 3      \* longest input file, in data rows
MantBits == 3        \* bits of precision of the model's floats (f64: 53)
MaxCalls == 2        \* how often the caller invokes process on the same file

\* ------------------------------------------------------------- f64 numbers
RECURSIVE Pow2(_)
Pow2(n) == IF n = 0 THEN 1 ELSE 2 * Pow2(n - 1)

Abs(x) == IF x < 0 THEN -x ELSE x

\* The spacing of the floats around a >= 0: 1 below 2^MantBits (the lowest
\* binades), doubling with every further binade.
RECURSIVE Ulp(_)
Ulp(a) == IF a < Pow2(MantBits) THEN 1 ELSE 2 * Ulp(a \div 2)

\* num/den (den > 0) rounded to the nearest float, ties to the even mantissa.
RoundRat(num, den) ==
    LET a    == Abs(num)
        u    == Ulp(a \div den)
        step == den * u
        m    == a \div step
        rem  == a - m * step
        up   == \/ 2 * rem > step
                \/ (2 * rem = step /\ m % 2 = 1)
        r    == (IF up THEN m + 1 ELSE m) * u
    IN  IF num < 0 THEN -r ELSE r

\* a + b on f64
FAdd(a, b) == RoundRat(a + b, 1)

\* a / (n as f64) on f64, n a small count (exactly representable)
FDiv(a, n) == RoundRat(a, n)

\* ----------------------------------------------------------------- strings
\* mutant of StrCmp: the shorter string first, then byte by byte
StrCmpByLength(a, b) ==
    IF Len(a) < Len(b) THEN -1
    ELSE IF Len(a) > Len(b) THEN 1
    ELSE LET diff == { k \in 1..Len(a) : a[k] # b[k] }
         IN  IF diff = {} THEN 0
             ELSE LET k == CHOOSE k \in diff : \A j \in diff : k <= j
                  IN  IF a[k] < b[k] THEN -1 ELSE 1

\* a.cmp(&b) on strings: -1 (Less), 0 (Equal), 1 (Greater), byte by byte.
RECURSIVE StrCmp(_, _)
StrCmp(a, b) ==
    IF a = <<>> /\ b = <<>> THEN 0
    ELSE IF a = <<>> THEN -1
    ELSE IF b = <<>> THEN 1
    ELSE IF Head(a) < Head(b) THEN -1
    ELSE IF Head(a) > Head(b) THEN 1
    ELSE StrCmp(Tail(a), Tail(b))

\* ------------------------------------------------------------- Accumulator
\* Accumulator::default()
Default == [count |-> 0, sum |-> 0]

\* mutant of Add: the count is not incremented
AddSumOnly(acc, value) == [count |-> acc.count, sum |-> FAdd(acc.sum, value)]

\* Accumulator::add
Add(acc, value) == [count |-> acc.count + 1, sum |-> FAdd(acc.sum, value)]

\* mutant of Merge: the other side's count is dropped
MergeLosesCount(self, other) ==
    [count |-> self.count, sum |-> FAdd(self.sum, other.sum)]

\* mutant of Merge: the other side's sum is dropped
MergeDropsSum(self, other) ==
    [count |-> self.count + other.count, sum |-> self.sum]

\* Accumulator::merge
Merge(self, other) ==
    [count |-> self.count + other.count, sum |-> FAdd(self.sum, other.sum)]

\* mutant of Passes: the threshold itself passes
PassesGe(r, thr) == r.value >= thr

\* mutant of Passes: the filter is left out
PassesAll(r, thr) == TRUE

\* the filter predicate of both aggregations: r.value > threshold
Passes(r, thr) == r.value > thr


\* ------------------------------------------------------------------- input
\* SensorID fields: "S2" and "S10" (as bytes); "S10" < "S2" byte-wise.
Sensors == { <<83, 50>>, <<83, 49, 48>> }

\* Value fields that parse as f64: Small, and the first number at which
\* the floats are spaced more than Small apart, so that Big + Small is not
\* a float.
Small == Pow2(1)
Big == Pow2(MantBits + 1)
Values == { Small, Big }

\* Thresholds the caller may pass: below every value, and equal to one.
Thresholds == { 0, Small }

\* A data row after trimming: its SensorID field and its Value field; ok is
\* FALSE for a Value field that does not parse as f64.
GoodRows == [sensor_id : Sensors, value : Values, ok : {TRUE}]
BadRow == [sensor_id |-> <<83, 50>>, value |-> 0, ok |-> FALSE]
Rows == GoodRows \cup {BadRow}

RECURSIVE SeqsUpTo(_, _)
SeqsUpTo(S, n) ==
    IF n = 0 THEN { <<>> }
    ELSE LET shorter == SeqsUpTo(S, n - 1)
         IN  shorter \cup { Append(q, x) : q \in shorter, x \in S }

\* The files the caller may pass: one that cannot be opened, or a header
\* followed by at most MaxRecords data rows.
Files == { [openable |-> FALSE, rows |-> <<>>] }
           \cup [openable : {TRUE}, rows : SeqsUpTo(Rows, MaxRecords)]

\* ------------------------------------------------------------------- state
VARIABLES
    file,        \* the input file (never written)
    threshold,   \* argument of process
    verbose,     \* argument of process
    pc,          \* position of the call of process
    records,     \* Vec<Record> returned by read_csv
    total_rows,  \* local of process
    gsegs,       \* global aggregation: the pieces of the fold/reduce tree
    global_acc,  \* local of process
    filtered_rows,
    average,     \* Option<f64>: [some |-> BOOLEAN, v |-> f64]
    ssegs,       \* grouped aggregation: the pieces of the for_each; cur
                 \* is the Accumulator the closure read through the entry
    lock,        \* the Mutex: 0 when free, else the index of the record
                 \* whose closure holds the guard
    map,         \* the HashMap<String, Accumulator> inside the Mutex
    per_sensor,  \* local of process
    out,         \* lines the core printed during the current call
    result,      \* what the current call returned
    prev,        \* what the previous call returned
    calls,       \* number of calls of process started
    removed,     \* main: total_rows - filtered_rows as rendered
    terms,       \* a reduce taken alone: the partial Accumulators it is given
    partials     \* a reduce taken alone: what is left of them to merge

vars == << file, threshold, verbose, pc, records, total_rows, gsegs,
           global_acc, filtered_rows, average, ssegs, lock, map, per_sensor,
           out, result, prev, calls, removed, terms, partials >>

None == [some |-> FALSE, v |-> 0]
Some(x) == [some |-> TRUE, v |-> x]

NoResult == [kind |-> "none"]
Err(what) == [kind |-> "err", error |-> what]
Ok(x) == [kind |-> "ok", value |-> x]

NotRendered == [done |-> FALSE, underflow |-> FALSE, value |-> 0]

\* The locals of a call of process before its first statement.
Entry ==
    /\ pc = "start"
    /\ records = <<>>
    /\ total_rows = 0
    /\ gsegs = <<>>
    /\ global_acc = Default
    /\ filtered_rows = 0
    /\ average = None
    /\ ssegs = <<>>
    /\ lock = 0
    /\ map = <<>>
    /\ per_sensor = <<>>
    /\ out = <<>>
    /\ result = NoResult
    /\ removed = NotRendered

Init ==
    /\ file \in Files
    /\ threshold \in Thresholds
    /\ verbose \in BOOLEAN
    /\ prev = NoResult
    /\ calls = 1
    /\ terms = <<>>
    /\ partials = <<>>
    /\ Entry

\* ---------------------------------------------------------------- read_csv
\* mutant of ReadCsvResult: rows that fail to deserialize are skipped
ReadCsvSkipBad(f) ==
    IF ~f.openable THEN Err("open")
    ELSE LET good == SelectSeq(f.rows, LAMBDA row : row.ok)
         IN  Ok([i \in 1..Len(good) |->
                    [sensor_id |-> good[i].sensor_id, value |-> good[i].value]])

\* reader.deserialize().collect::<Result<Vec<Record>, _>>(): the records in
\* file order, or the first error.
ReadCsvResult(f) ==
    IF ~f.openable THEN Err("open")
    ELSE IF \E i \in 1..Len(f.rows) : ~f.rows[i].ok THEN Err("deserialize")
    ELSE Ok([i \in 1..Len(f.rows) |->
                [sensor_id |-> f.rows[i].sensor_id, value |-> f.rows[i].value]])

\* The root piece of a parallel iterator over n items.
RootSeg(n) == [path |-> <<>>, lo |-> 1, hi |-> n, next |-> 1,
               acc |-> Default, st |-> "fold"]

\* mutant of TotalRows: the header is counted as a row
TotalRowsWithHeader(recs) == Len(recs) + 1

\* mutant of TotalRows: the header is subtracted from the data rows
TotalRowsLessHeader(recs) == IF Len(recs) > 0 THEN Len(recs) - 1 ELSE 0

\* records.len()
TotalRows(recs) == Len(recs)

\* let records = read_csv(path)?; let total_rows = records.len();
ReadCsv ==
    /\ pc = "start"
    /\ LET r == ReadCsvResult(file)
       IN  IF r.kind = "ok"
           THEN /\ records' = r.value
                /\ total_rows' = TotalRows(r.value)
                /\ gsegs' = << RootSeg(Len(r.value)) >>
                /\ pc' = "global"
                /\ UNCHANGED result
           ELSE /\ result' = r
                /\ pc' = "done"
                /\ UNCHANGED << records, total_rows, gsegs >>
    /\ UNCHANGED << terms, partials, file, threshold, verbose, global_acc, filtered_rows,
                    average, ssegs, lock, map, per_sensor, out, prev, calls,
                    removed >>

\* ------------------------------------------------------ global aggregation
\* records.par_iter().filter(..).fold(..).reduce(..): rayon halves a piece
\* that no worker has started on, folds every piece from left to right into
\* an Accumulator of its own, and merges the Accumulators of the two halves
\* of a piece, left before right, up to the root.

\* seq with its element i replaced by the elements of by
Splice(seq, i, n, by) ==
    SubSeq(seq, 1, i - 1) \o by \o SubSeq(seq, i + n, Len(seq))

SegLen(g) == g.hi - g.lo + 1

\* a worker has not started on piece g and g can be halved
Splittable(g) == g.next = g.lo /\ SegLen(g) >= 2

\* index of the first item of the right half
SplitAt(g) == g.lo + (SegLen(g) \div 2)

GSplit(i) ==
    /\ pc = "global"
    /\ i \in 1..Len(gsegs)
    /\ LET g == gsegs[i]
           mid == SplitAt(g)
           left == [g EXCEPT !.path = Append(g.path, 0), !.hi = mid - 1]
           right == [g EXCEPT !.path = Append(g.path, 1), !.lo = mid,
                                !.next = mid]
       IN  /\ g.st = "fold"
           /\ Splittable(g)
           /\ gsegs' = Splice(gsegs, i, 1, << left, right >>)
    /\ UNCHANGED << terms, partials, file, threshold, verbose, pc, records, total_rows,
                    global_acc, filtered_rows, average, ssegs, lock, map,
                    per_sensor, out, result, prev, calls, removed >>

\* one item through .filter(|r| r.value > threshold) and the fold closure
FoldItem(acc, r, thr) == IF Passes(r, thr) THEN Add(acc, r.value) ELSE acc

GFold(i) ==
    /\ pc = "global"
    /\ i \in 1..Len(gsegs)
    /\ LET g == gsegs[i]
       IN  /\ g.st = "fold"
           /\ g.next <= g.hi
           /\ gsegs' = [gsegs EXCEPT ![i] =
                  [g EXCEPT !.acc = FoldItem(g.acc, records[g.next], threshold),
                            !.next = g.next + 1]]
    /\ UNCHANGED << terms, partials, file, threshold, verbose, pc, records, total_rows,
                    global_acc, filtered_rows, average, ssegs, lock, map,
                    per_sensor, out, result, prev, calls, removed >>

\* a piece is folded to its end: reduce takes its Accumulator into the
\* identity, merge(Accumulator::default(), acc)
GLeaf(i) ==
    /\ pc = "global"
    /\ i \in 1..Len(gsegs)
    /\ LET g == gsegs[i]
       IN  /\ g.st = "fold"
           /\ g.next > g.hi
           /\ gsegs' = [gsegs EXCEPT ![i] =
                  [g EXCEPT !.acc = Merge(Default, g.acc), !.st = "reduced"]]
    /\ UNCHANGED << terms, partials, file, threshold, verbose, pc, records, total_rows,
                    global_acc, filtered_rows, average, ssegs, lock, map,
                    per_sensor, out, result, prev, calls, removed >>

\* l and r are the two halves of one piece
Siblings(l, r) ==
    /\ Len(l.path) >= 1
    /\ Len(l.path) = Len(r.path)
    /\ SubSeq(l.path, 1, Len(l.path) - 1) = SubSeq(r.path, 1, Len(r.path) - 1)
    /\ l.path[Len(l.path)] = 0
    /\ r.path[Len(r.path)] = 1

\* reduce joins the results of two halves: left.merge(right)
GMerge(i) ==
    /\ pc = "global"
    /\ i \in 1..(Len(gsegs) - 1)
    /\ LET l == gsegs[i]
           r == gsegs[i + 1]
           joined == [path |-> SubSeq(l.path, 1, Len(l.path) - 1),
                      lo |-> l.lo, hi |-> r.hi, next |-> r.next,
                      acc |-> Merge(l.acc, r.acc), st |-> "reduced"]
       IN  /\ l.st = "reduced"
           /\ r.st = "reduced"
           /\ Siblings(l, r)
           /\ gsegs' = Splice(gsegs, i, 2, << joined >>)
    /\ UNCHANGED << terms, partials, file, threshold, verbose, pc, records, total_rows,
                    global_acc, filtered_rows, average, ssegs, lock, map,
                    per_sensor, out, result, prev, calls, removed >>

\* mutant of AverageOf: no average for a single filtered row
AverageOfMany(acc) == IF acc.count > 1 THEN Some(FDiv(acc.sum, acc.count)) ELSE None

\* if global_acc.count > 0 { Some(sum / count as f64) } else { None }
AverageOf(acc) == IF acc.count > 0 THEN Some(FDiv(acc.sum, acc.count)) ELSE None

\* The root piece of the for_each of the grouped aggregation.
SRootSeg(n) == [lo |-> 1, hi |-> n, next |-> 1, st |-> "filter",
                cur |-> Default]

\* mutant of FinishGlobal: the grouped aggregation runs whatever verbose is
FinishGlobalGrouped ==
    /\ pc = "global"
    /\ Len(gsegs) = 1
    /\ gsegs[1].st = "reduced"
    /\ global_acc' = gsegs[1].acc
    /\ filtered_rows' = gsegs[1].acc.count
    /\ average' = AverageOf(gsegs[1].acc)
    /\ gsegs' = <<>>
    /\ pc' = "grouped"
    /\ ssegs' = << SRootSeg(Len(records)) >>
    /\ per_sensor' = <<>>
    /\ UNCHANGED << terms, partials, file, threshold, verbose, records,
                    total_rows, lock, map, out, result, prev, calls, removed >>

\* the reduce has returned: filtered_rows, average, and the verbose branch
FinishGlobal ==
    /\ pc = "global"
    /\ Len(gsegs) = 1
    /\ gsegs[1].st = "reduced"
    /\ global_acc' = gsegs[1].acc
    /\ filtered_rows' = gsegs[1].acc.count
    /\ average' = AverageOf(gsegs[1].acc)
    /\ gsegs' = <<>>
    /\ IF verbose
       THEN /\ pc' = "grouped"
            /\ ssegs' = << SRootSeg(Len(records)) >>
       ELSE /\ pc' = "assemble"
            /\ ssegs' = <<>>
    /\ per_sensor' = <<>>
    /\ UNCHANGED << terms, partials, file, threshold, verbose, records, total_rows, lock, map,
                    out, result, prev, calls, removed >>

\* ----------------------------------------------------- grouped aggregation
\* records.par_iter().filter(..).for_each(..): pieces as above; each piece's
\* worker takes its items from left to right through the filter and the
\* closure, which locks the map, updates it and drops the guard.

SSplit(i) ==
    /\ pc = "grouped"
    /\ i \in 1..Len(ssegs)
    /\ LET g == ssegs[i]
           mid == SplitAt(g)
           left == [g EXCEPT !.hi = mid - 1]
           right == [g EXCEPT !.lo = mid, !.next = mid]
       IN  /\ g.st = "filter"
           /\ Splittable(g)
           /\ ssegs' = Splice(ssegs, i, 1, << left, right >>)
    /\ UNCHANGED << terms, partials, file, threshold, verbose, pc, records, total_rows, gsegs,
                    global_acc, filtered_rows, average, lock, map, per_sensor,
                    out, result, prev, calls, removed >>

\* .filter(|r| r.value > threshold): the item reaches the closure or not
SFilter(i) ==
    /\ pc = "grouped"
    /\ i \in 1..Len(ssegs)
    /\ LET g == ssegs[i]
       IN  /\ g.st = "filter"
           /\ g.next <= g.hi
           /\ ssegs' = [ssegs EXCEPT ![i] =
                  IF Passes(records[g.next], threshold)
                  THEN [g EXCEPT !.st = "want"]
                  ELSE [g EXCEPT !.next = g.next + 1]]
    /\ UNCHANGED << terms, partials, file, threshold, verbose, pc, records, total_rows, gsegs,
                    global_acc, filtered_rows, average, lock, map, per_sensor,
                    out, result, prev, calls, removed >>

\* mutant of LockFree: lock never waits
LockNeverHeld(l) == TRUE

\* Mutex::lock returns a guard only while no other guard exists
LockFree(l) == l = 0

\* let mut guard = map.lock().expect("mutex poisoned");
SLock(i) ==
    /\ pc = "grouped"
    /\ i \in 1..Len(ssegs)
    /\ ssegs[i].st = "want"
    /\ LockFree(lock)
    /\ lock' = ssegs[i].next
    /\ ssegs' = [ssegs EXCEPT ![i].st = "locked"]
    /\ UNCHANGED << terms, partials, file, threshold, verbose, pc, records, total_rows, gsegs,
                    global_acc, filtered_rows, average, map, per_sensor, out,
                    result, prev, calls, removed >>

\* mutant of OrDefault: insert(key, default) even when the key is occupied
InsertDefault(m, key) == (key :> Default) @@ m

\* guard.entry(key).or_default() on the map m: the key's Accumulator, put
\* there as Accumulator::default() if the key was vacant
OrDefault(m, key) == IF key \in DOMAIN m THEN m ELSE m @@ (key :> Default)

\* the closure reaches the entry and reads the Accumulator it is about to
\* add to
SEntry(i) ==
    /\ pc = "grouped"
    /\ i \in 1..Len(ssegs)
    /\ ssegs[i].st = "locked"
    /\ LET key == records[ssegs[i].next].sensor_id
       IN  /\ map' = OrDefault(map, key)
           /\ ssegs' = [ssegs EXCEPT ![i].st = "entry", ![i].cur = map'[key]]
    /\ UNCHANGED << terms, partials, file, threshold, verbose, pc, records, total_rows, gsegs,
                    global_acc, filtered_rows, average, lock, per_sensor, out,
                    result, prev, calls, removed >>

\* .add(r.value) through the entry: count += 1; sum += value
SAdd(i) ==
    /\ pc = "grouped"
    /\ i \in 1..Len(ssegs)
    /\ ssegs[i].st = "entry"
    /\ LET r == records[ssegs[i].next]
       IN  map' = [map EXCEPT ![r.sensor_id] = Add(ssegs[i].cur, r.value)]
    /\ ssegs' = [ssegs EXCEPT ![i].st = "updated", ![i].cur = Default]
    /\ UNCHANGED << terms, partials, file, threshold, verbose, pc, records, total_rows, gsegs,
                    global_acc, filtered_rows, average, lock, per_sensor, out,
                    result, prev, calls, removed >>

\* mutant of SUnlock: the closure returns without dropping the guard
SUnlockLeak(i) ==
    /\ pc = "grouped"
    /\ i \in 1..Len(ssegs)
    /\ ssegs[i].st = "updated"
    /\ ssegs' = [ssegs EXCEPT ![i].st = "filter", ![i].next = @ + 1]
    /\ UNCHANGED << terms, partials, file, threshold, verbose, pc, records,
                    total_rows, gsegs, global_acc, filtered_rows, average,
                    lock, map, per_sensor, out, result, prev, calls, removed >>

\* the closure returns and drops the guard
SUnlock(i) ==
    /\ pc = "grouped"
    /\ i \in 1..Len(ssegs)
    /\ ssegs[i].st = "updated"
    /\ lock' = 0
    /\ ssegs' = [ssegs EXCEPT ![i].st = "filter", ![i].next = @ + 1]
    /\ UNCHANGED << terms, partials, file, threshold, verbose, pc, records, total_rows, gsegs,
                    global_acc, filtered_rows, average, map, per_sensor, out,
                    result, prev, calls, removed >>

\* the for_each has returned: every piece's worker is past its last item
WorkersDone == \A i \in 1..Len(ssegs) : ssegs[i].next > ssegs[i].hi

\* the orders in which into_iter() may yield the keys of a HashMap
IterOrders(keys) ==
    { f \in [1..Cardinality(keys) -> keys] :
        \A i, j \in 1..Cardinality(keys) : i # j => f[i] # f[j] }

\* .map(|(sensor_id, acc)| SensorStats { .. })
ToSensorStats(sensor_id, acc) ==
    [sensor_id |-> sensor_id, count |-> acc.count,
     average |-> FDiv(acc.sum, acc.count)]

RECURSIVE InsertBySensorId(_, _)
InsertBySensorId(x, s) ==
    IF s = <<>> THEN << x >>
    ELSE IF StrCmp(x.sensor_id, Head(s).sensor_id) <= 0 THEN << x >> \o s
    ELSE << Head(s) >> \o InsertBySensorId(x, Tail(s))

\* mutant of SortBySensorId: the sort is left out
NoSort(s) == s

\* stats.sort_unstable_by(|a, b| a.sensor_id.cmp(&b.sensor_id))
RECURSIVE SortBySensorId(_)
SortBySensorId(s) ==
    IF s = <<>> THEN <<>>
    ELSE InsertBySensorId(Head(s), SortBySensorId(Tail(s)))

\* map.into_inner() .. .collect(); sort; return
Drain ==
    /\ pc = "grouped"
    /\ WorkersDone
    /\ \E order \in IterOrders(DOMAIN map) :
          per_sensor' = SortBySensorId(
              [k \in 1..Len(order) |-> ToSensorStats(order[k], map[order[k]])])
    /\ map' = <<>>
    /\ ssegs' = <<>>
    /\ pc' = "assemble"
    /\ UNCHANGED << terms, partials, file, threshold, verbose, records, total_rows, gsegs,
                    global_acc, filtered_rows, average, lock, out, result,
                    prev, calls, removed >>

\* ---------------------------------------------------------------- assembly
Line(kind, s) == [kind |-> kind, sensor_id |-> s.sensor_id,
                  count |-> s.count, average |-> s.average]
NoStats == [sensor_id |-> <<>>, count |-> 0, average |-> 0]

\* print_sensor_table: a blank line, the heading, the rule, a line per
\* sensor, a blank line
SensorTable(stats) ==
    << Line("blank", NoStats), Line("heading", NoStats), Line("rule", NoStats) >>
    \o [k \in 1..Len(stats) |-> Line("row", stats[k])]
    \o << Line("blank", NoStats) >>

\* mutant of Printed: the table is printed even when it is empty
PrintedWhenVerbose(v, stats) == IF v THEN SensorTable(stats) ELSE <<>>

\* if verbose && !per_sensor.is_empty() { print_sensor_table(&per_sensor) }
Printed(v, stats) == IF v /\ stats # <<>> THEN SensorTable(stats) ELSE <<>>

Assemble ==
    /\ pc = "assemble"
    /\ out' = out \o Printed(verbose, per_sensor)
    /\ result' = Ok([total_rows |-> total_rows,
                     filtered_rows |-> filtered_rows,
                     average |-> average,
                     per_sensor |-> per_sensor])
    /\ pc' = "done"
    /\ UNCHANGED << terms, partials, file, threshold, verbose, records, total_rows, gsegs,
                    global_acc, filtered_rows, average, ssegs, lock, map,
                    per_sensor, prev, calls, removed >>

\* ------------------------------------------------------------------ caller
\* a - b on usize: the difference, or an underflow (a panic in a debug
\* build, a wrapped value in a release build)
USub(a, b) ==
    IF a >= b THEN [done |-> TRUE, underflow |-> FALSE, value |-> a - b]
    ELSE [done |-> TRUE, underflow |-> TRUE, value |-> 0]

\* main prints "Rows removed": stats.total_rows - stats.filtered_rows
Render ==
    /\ pc = "done"
    /\ result.kind = "ok"
    /\ ~removed.done
    /\ removed' = USub(result.value.total_rows, result.value.filtered_rows)
    /\ UNCHANGED << terms, partials, file, threshold, verbose, pc, records, total_rows, gsegs,
                    global_acc, filtered_rows, average, ssegs, lock, map,
                    per_sensor, out, result, prev, calls >>

\* process is called again on the same file with the same arguments
Rerun ==
    /\ pc = "done"
    /\ calls < MaxCalls
    /\ prev' = result
    /\ calls' = calls + 1
    /\ pc' = "start"
    /\ records' = <<>>
    /\ total_rows' = 0
    /\ gsegs' = <<>>
    /\ global_acc' = Default
    /\ filtered_rows' = 0
    /\ average' = None
    /\ ssegs' = <<>>
    /\ lock' = 0
    /\ map' = <<>>
    /\ per_sensor' = <<>>
    /\ out' = <<>>
    /\ result' = NoResult
    /\ removed' = NotRendered
    /\ UNCHANGED << terms, partials, file, threshold, verbose >>

\* a step of the call of process in progress, or of main after it
Step ==
    \/ ReadCsv
    \/ \E i \in 1..MaxRecords : GSplit(i)
    \/ \E i \in 1..MaxRecords : GFold(i)
    \/ \E i \in 1..MaxRecords : GLeaf(i)
    \/ \E i \in 1..MaxRecords : GMerge(i)
    \/ FinishGlobal
    \/ \E i \in 1..MaxRecords : SSplit(i)
    \/ \E i \in 1..MaxRecords : SFilter(i)
    \/ \E i \in 1..MaxRecords : SLock(i)
    \/ \E i \in 1..MaxRecords : SEntry(i)
    \/ \E i \in 1..MaxRecords : SAdd(i)
    \/ \E i \in 1..MaxRecords : SUnlock(i)
    \/ Drain
    \/ Assemble
    \/ Render

Next == Step \/ Rerun

Spec == Init /\ [][Next]_vars

\* One call of process, which keeps running once started: the threads of
\* the pool run whenever one of them can, and lock() returns once the Mutex
\* is free.
FairSpec == Init /\ [][Step]_vars /\ WF_vars(Step)

\* process is called again on the same file with the same threshold and
\* the other value of verbose
RerunOther ==
    /\ pc = "done"
    /\ calls < MaxCalls
    /\ prev' = result
    /\ calls' = calls + 1
    /\ verbose' = ~verbose
    /\ pc' = "start"
    /\ records' = <<>>
    /\ total_rows' = 0
    /\ gsegs' = <<>>
    /\ global_acc' = Default
    /\ filtered_rows' = 0
    /\ average' = None
    /\ ssegs' = <<>>
    /\ lock' = 0
    /\ map' = <<>>
    /\ per_sensor' = <<>>
    /\ out' = <<>>
    /\ result' = NoResult
    /\ removed' = NotRendered
    /\ UNCHANGED << terms, partials, file, threshold >>

VerboseNext == Step \/ RerunOther

\* the calls of process alternate between verbose and not verbose
VerboseSpec == Init /\ [][VerboseNext]_vars

\* ------------------------------------------------------ a reduce on its own
\* .reduce(Accumulator::default, Accumulator::merge) given any partial
\* Accumulators: rayon may merge any two neighbours, either of them first,
\* and may merge the identity into any of them, from the left or the right.

MaxTerms == 3        \* most partial Accumulators handed to one reduce
MaxFold == 2         \* most values folded into one partial Accumulator

\* the Accumulators a fold of at most n values can hand to the reduce
RECURSIVE FoldsUpTo(_)
FoldsUpTo(n) ==
    IF n = 0 THEN { Default }
    ELSE LET shorter == FoldsUpTo(n - 1)
         IN  shorter \cup { Add(acc, v) : acc \in shorter, v \in Values }

ReduceInit ==
    /\ terms \in SeqsUpTo(FoldsUpTo(MaxFold), MaxTerms)
    /\ partials = terms
    /\ file = [openable |-> FALSE, rows |-> <<>>]
    /\ threshold = 0
    /\ verbose = FALSE
    /\ prev = NoResult
    /\ calls = 1
    /\ Entry

\* reduce_op(left, right) on two neighbours
ReduceAdjacent(i) ==
    /\ i \in 1..(Len(partials) - 1)
    /\ partials' = Splice(partials, i, 2,
                          << Merge(partials[i], partials[i + 1]) >>)
    /\ UNCHANGED << terms, file, threshold, verbose, pc, records, total_rows,
                    gsegs, global_acc, filtered_rows, average, ssegs, lock,
                    map, per_sensor, out, result, prev, calls, removed >>

\* reduce_op(right, left) on two neighbours
ReduceSwapped(i) ==
    /\ i \in 1..(Len(partials) - 1)
    /\ partials' = Splice(partials, i, 2,
                          << Merge(partials[i + 1], partials[i]) >>)
    /\ UNCHANGED << terms, file, threshold, verbose, pc, records, total_rows,
                    gsegs, global_acc, filtered_rows, average, ssegs, lock,
                    map, per_sensor, out, result, prev, calls, removed >>

\* reduce_op(identity(), item) or reduce_op(item, identity())
ReduceIdentity(i) ==
    /\ i \in 1..Len(partials)
    /\ \/ partials' = [partials EXCEPT ![i] = Merge(Default, partials[i])]
       \/ partials' = [partials EXCEPT ![i] = Merge(partials[i], Default)]
    /\ UNCHANGED << terms, file, threshold, verbose, pc, records, total_rows,
                    gsegs, global_acc, filtered_rows, average, ssegs, lock,
                    map, per_sensor, out, result, prev, calls, removed >>

ReduceNext ==
    \/ \E i \in 1..MaxTerms : ReduceAdjacent(i)
    \/ \E i \in 1..MaxTerms : ReduceSwapped(i)
    \/ \E i \in 1..MaxTerms : ReduceIdentity(i)

ReduceSpec == ReduceInit /\ [][ReduceNext]_vars

\* ================================================================== claims
\* What the claims speak of, stated on the input file and the arguments.

\* process has returned Ok(stats)
Returned == pc = "done" /\ result.kind = "ok"
Stats == result.value

\* the data rows whose value is strictly greater than the threshold
Surviving == { i \in 1..Len(file.rows) : file.rows[i].value > threshold }
SurvivingOf(s) == { i \in Surviving : file.rows[i].sensor_id = s }

\* the exact (unrounded) sum of the values of the rows I
RECURSIVE ExactSum(_)
ExactSum(I) ==
    IF I = {} THEN 0
    ELSE LET i == CHOOSE i \in I : TRUE
         IN  file.rows[i].value + ExactSum(I \ {i})

\* the values of the surviving rows, in file order
SurvivingValues ==
    LET keep == SelectSeq([i \in 1..Len(file.rows) |-> i],
                          LAMBDA i : i \in Surviving)
    IN  [k \in 1..Len(keep) |-> file.rows[keep[k]].value]

\* the f64 sums of a sequence of values added in order under every grouping
\* of adjacent values (every shape of fold/reduce tree)
RECURSIVE GroupedSums(_)
GroupedSums(v) ==
    IF Len(v) = 0 THEN { 0 }
    ELSE IF Len(v) = 1 THEN { v[1] }
    ELSE UNION { { FAdd(a, b) : a \in GroupedSums(SubSeq(v, 1, k)),
                                b \in GroupedSums(SubSeq(v, k + 1, Len(v))) }
                 : k \in 1..(Len(v) - 1) }

\* the f64 sums of the values of the rows I added one by one in every order
RECURSIVE OrderedSums(_, _)
OrderedSums(sofar, I) ==
    IF I = {} THEN { sofar }
    ELSE UNION { OrderedSums(FAdd(sofar, file.rows[i].value), I \ {i}) : i \in I }

\* a < b as strings, byte-wise (lexicographic)
ByteLess(a, b) ==
    \E k \in 1..(Len(a) + 1) :
        /\ k <= Len(b) + 1
        /\ \A j \in 1..(k - 1) : a[j] = b[j]
        /\ \/ (k = Len(a) + 1 /\ k <= Len(b))
           \/ (k <= Len(a) /\ k <= Len(b) /\ a[k] < b[k])

RECURSIVE SumCounts(_)
SumCounts(ps) == IF ps = <<>> THEN 0 ELSE Head(ps).count + SumCounts(Tail(ps))

\* C1: whatever the pieces the records were folded in and the order of the
\* merges, the filtered_rows that process returns is the number of records
\* whose value is strictly greater than the threshold.
C1_FilteredRowsIsCount ==
    Returned => Stats.filtered_rows = Cardinality(Surviving)

\* C1 witness: a call returned with three rows read, two of them counted and
\* one, equal to the threshold, not.
C1_Witness ==
    /\ Returned
    /\ Stats.total_rows = 3
    /\ Stats.filtered_rows = 2
    /\ threshold = Small

\* C2 as stated: average is present iff filtered_rows > 0, and is then the
\* sum of the values above the threshold divided by filtered_rows (the
\* exact sum, the quotient rounded once to f64).
C2_AverageIsExactMean ==
    Returned =>
        /\ Stats.average.some <=> Stats.filtered_rows > 0
        /\ Stats.average.some =>
               Stats.average.v = RoundRat(ExactSum(Surviving), Stats.filtered_rows)

\* C2 amended: average is present iff filtered_rows > 0, and is then the f64
\* quotient by filtered_rows of the f64 sum of the values above the
\* threshold, added in file order under one of the groupings of the
\* fold/reduce.
C2_AverageIsAccumulatedMean ==
    Returned =>
        /\ Stats.average.some <=> Stats.filtered_rows > 0
        /\ Stats.average.some =>
               Stats.average.v \in
                   { FDiv(sum, Cardinality(Surviving)) :
                         sum \in GroupedSums(SurvivingValues) }

\* C2 witness: a call returned an average over three values whose f64 sum
\* was rounded on the way.
C2_Witness ==
    /\ Returned
    /\ Stats.filtered_rows = 3
    /\ Stats.average.some
    /\ Stats.average.v # RoundRat(ExactSum(Surviving), 3)

\* C3: in a verbose run the counts of the per_sensor entries add up to
\* filtered_rows, under every interleaving of the workers.
C3_CountsAddUp ==
    (Returned /\ verbose) => SumCounts(Stats.per_sensor) = Stats.filtered_rows

\* C3 witness: a verbose call returned two sensors sharing three rows.
C3_Witness ==
    /\ Returned
    /\ verbose
    /\ Len(Stats.per_sensor) = 2
    /\ Stats.filtered_rows = 3

\* the previous call of process on this file has returned and so has the
\* current one
ReturnedTwice == pc = "done" /\ prev # NoResult

\* C4 as stated: two calls on the same file, threshold and verbose return
\* identical results.
C4_SameResultTwice == ReturnedTwice => result = prev

\* what of a result does not depend on the order of f64 additions
Counted(r) ==
    IF r.kind = "ok"
    THEN [total_rows |-> r.value.total_rows,
          filtered_rows |-> r.value.filtered_rows,
          has_average |-> r.value.average.some,
          per_sensor |-> [k \in 1..Len(r.value.per_sensor) |->
                             [sensor_id |-> r.value.per_sensor[k].sensor_id,
                              count |-> r.value.per_sensor[k].count]]]
    ELSE r

\* C4 amended: two calls on the same file, threshold and verbose both fail
\* with the same error or return the same total_rows, the same
\* filtered_rows, an average both times or neither time, and per_sensor
\* entries with the same sensor_ids and counts in the same order; the
\* averages themselves may differ by f64 rounding.
C4_SameCountsTwice == ReturnedTwice => Counted(result) = Counted(prev)

\* C4 witness: two verbose calls returned, with different averages.
C4_Witness ==
    /\ ReturnedTwice
    /\ Returned
    /\ verbose
    /\ Len(Stats.per_sensor) = 2
    /\ Stats.average # prev.value.average

\* C5: the per_sensor of a verbose run is strictly ascending by sensor_id,
\* byte-wise, whatever the order the map was filled and drained in.
C5_SortedNoDuplicates ==
    (Returned /\ verbose) =>
        \A i, j \in 1..Len(Stats.per_sensor) :
            i < j => ByteLess(Stats.per_sensor[i].sensor_id,
                              Stats.per_sensor[j].sensor_id)

\* C5 witness: a verbose call returned "S10" before "S2" although the "S2"
\* row came first in the file.
C5_Witness ==
    /\ Returned
    /\ verbose
    /\ Len(Stats.per_sensor) = 2
    /\ Stats.per_sensor[1].sensor_id = <<83, 49, 48>>
    /\ file.rows[1].sensor_id = <<83, 50>>

Unreadable == ~file.openable \/ \E i \in 1..Len(file.rows) : ~file.rows[i].ok

\* C7: on a file that cannot be opened or has a row that does not
\* deserialize, process returns an error and nothing else: no records, no
\* worker of either aggregation, no Accumulator, no map entry, no
\* statistics, also when the rows before the bad one were valid.
C7_ReadFailureIsTotal ==
    Unreadable =>
        /\ pc \in {"start", "done"}
        /\ pc = "done" => result.kind = "err"
        /\ result.kind # "ok"
        /\ records = <<>>
        /\ gsegs = <<>> /\ ssegs = <<>>
        /\ global_acc = Default /\ map = <<>>
        /\ filtered_rows = 0 /\ average = None /\ per_sensor = <<>>
        /\ ~removed.done

\* C7 witness: process returned the deserialize error for a file whose
\* first two rows were valid and above the threshold.
C7_Witness ==
    /\ pc = "done"
    /\ result = Err("deserialize")
    /\ Len(file.rows) = 3
    /\ file.rows[1].ok /\ file.rows[2].ok /\ ~file.rows[3].ok
    /\ file.rows[1].value > threshold

\* the worker of piece i of the sequence segs took its current record in
\* this step
Took(segs, segsNext, i) ==
    /\ Len(segsNext) = Len(segs)
    /\ segsNext[i].next = segs[i].next + 1

\* the current record of piece g is equal to the threshold
AtThreshold(g) == g.next <= g.hi /\ records[g.next].value = threshold

\* C8: a record whose value is equal to the threshold is excluded by both
\* aggregations: the fold leaves its Accumulator (count and sum) as it was,
\* and the for_each passes it by without asking for the lock, creating or
\* updating a map entry.
C8_ThresholdExcluded ==
    [][ /\ \A i \in 1..Len(gsegs) :
              (gsegs[i].st = "fold" /\ AtThreshold(gsegs[i])
                  /\ Took(gsegs, gsegs', i))
              => gsegs'[i].acc = gsegs[i].acc
        /\ \A i \in 1..Len(ssegs) :
              AtThreshold(ssegs[i]) =>
                  /\ ssegs[i].st = "filter"
                  /\ Took(ssegs, ssegs', i) => (map' = map /\ lock' = lock)
      ]_vars

\* C8 witness: a verbose call returned one sensor although a row of another
\* sensor had the threshold as its value.
C8_Witness ==
    /\ Returned
    /\ verbose
    /\ threshold = Small
    /\ Stats.filtered_rows = 1
    /\ Len(Stats.per_sensor) = 1
    /\ \E k \in 1..Len(file.rows) :
           /\ file.rows[k].value = threshold
           /\ file.rows[k].sensor_id # Stats.per_sensor[1].sensor_id

\* C9: every returned ProcessingStats has filtered_rows <= total_rows, and
\* the caller's total_rows - filtered_rows does not underflow.
C9_FilteredAtMostTotal ==
    /\ Returned => Stats.filtered_rows <= Stats.total_rows
    /\ removed.done =>
           /\ ~removed.underflow
           /\ removed.value = Len(file.rows) - Cardinality(Surviving)

\* C9 witness: the caller rendered 0 rows removed of 3.
C9_Witness ==
    /\ removed.done
    /\ removed.value = 0
    /\ Stats.total_rows = 3
    /\ Stats.filtered_rows = 3

\* the for_each of the grouped aggregation has returned, the map is not yet
\* drained
WorkersFinished ==
    /\ pc = "grouped"
    /\ \A i \in 1..Len(ssegs) : ssegs[i].next > ssegs[i].hi

\* C10 as stated: after all workers have finished, the map holds for every
\* sensor the number of its records above the threshold and the sum of
\* their values (the exact sum, rounded once to f64).
C10_NoLostUpdateExactSum ==
    WorkersFinished =>
        \A s \in Sensors :
            IF SurvivingOf(s) = {} THEN s \notin DOMAIN map
            ELSE /\ s \in DOMAIN map
                 /\ map[s].count = Cardinality(SurvivingOf(s))
                 /\ map[s].sum = RoundRat(ExactSum(SurvivingOf(s)), 1)

\* C10 amended: after all workers have finished, the map holds for every
\* sensor the number of its records above the threshold and the f64 sum of
\* their values added one by one in the order the workers took the lock
\* (one of the orders of these records); no add is lost.
C10_NoLostUpdate ==
    WorkersFinished =>
        \A s \in Sensors :
            IF SurvivingOf(s) = {} THEN s \notin DOMAIN map
            ELSE /\ s \in DOMAIN map
                 /\ map[s].count = Cardinality(SurvivingOf(s))
                 /\ map[s].sum \in OrderedSums(0, SurvivingOf(s))

\* C10 witness: three workers, one record each, have all added to the same
\* key.
C10_Witness ==
    /\ WorkersFinished
    /\ Len(ssegs) = 3
    /\ lock = 0
    /\ \E s \in DOMAIN map : map[s].count = 3

\* the sensor_ids of the entries of a per_sensor sequence
SensorIds(ps) == { ps[k].sensor_id : k \in 1..Len(ps) }

\* C11: the sensor_ids of the per_sensor of a verbose run are the distinct
\* sensor_ids of the records above the threshold, one entry each: none for
\* a sensor whose records were all filtered out, and no entry at all when
\* no record passes.
C11_OneEntryPerSurvivingSensor ==
    (Returned /\ verbose) =>
        /\ SensorIds(Stats.per_sensor) =
               { file.rows[i].sensor_id : i \in Surviving }
        /\ Len(Stats.per_sensor) = Cardinality(SensorIds(Stats.per_sensor))
        /\ Surviving = {} => Stats.per_sensor = <<>>

\* C11 witness: a verbose call returned a single entry for a file of two
\* sensors, all rows of the other sensor being at or below the threshold.
C11_Witness ==
    /\ Returned
    /\ verbose
    /\ Len(Stats.per_sensor) = 1
    /\ Stats.per_sensor[1].count = 2
    /\ \E i \in 1..Len(file.rows) :
           file.rows[i].sensor_id # Stats.per_sensor[1].sensor_id

\* C12 as stated: in every reachable state every key of the map has
\* count > 0.
C12_EveryKeyCounted == \A k \in DOMAIN map : map[k].count > 0

\* the closure of piece g holds the lock between or_default and add on key k
JustCreated(g, k) ==
    /\ g.st = "entry"
    /\ g.next = lock
    /\ records[g.next].sensor_id = k

\* C12 amended: whenever the lock is free, and so when the map is drained,
\* every key of the map has count > 0 and the division sum / count is not
\* by zero; a key has count 0 only while the closure that created it with
\* or_default holds the lock and has not yet added to it.
C12_KeyCountedUnlessJustCreated ==
    /\ \A k \in DOMAIN map :
           map[k].count = 0 =>
               /\ lock # 0
               /\ \E i \in 1..Len(ssegs) : JustCreated(ssegs[i], k)
    /\ (pc = "grouped" /\ WorkersDone) =>
           (lock = 0 /\ \A k \in DOMAIN map : map[k].count > 0)

\* C12 witness: or_default has just created a key, with count 0, next to a
\* key that already counts a record.
C12_Witness ==
    /\ pc = "grouped"
    /\ lock # 0
    /\ \E k \in DOMAIN map : map[k].count = 0
    /\ \E k \in DOMAIN map : map[k].count > 0

\* the partial Accumulators merged from left to right
RECURSIVE MergeAll(_)
MergeAll(accs) ==
    IF Len(accs) = 0 THEN Default
    ELSE Merge(MergeAll(SubSeq(accs, 1, Len(accs) - 1)), accs[Len(accs)])

Associative(a, b, c) == Merge(Merge(a, b), c) = Merge(a, Merge(b, c))
Commutative(a, b) == Merge(a, b) = Merge(b, a)
Identity(a) == Merge(Default, a) = a /\ Merge(a, Default) = a

\* the Accumulators in play in the current state of the reduce (at its
\* start, the partial Accumulators it was given)
InPlay == { partials[k] : k \in 1..Len(partials) }

\* C13 as stated: merge is associative and commutative on (count, sum), the
\* empty Accumulator is its left and right identity, and so every tree
\* shape of the reduce gives the same (count, sum).
C13_MergeIsCommutativeMonoid ==
    /\ \A a \in InPlay : Identity(a)
    /\ \A a, b \in InPlay : Commutative(a, b)
    /\ \A a, b, c \in InPlay : Associative(a, b, c)
    /\ Len(partials) = 1 => partials[1] = MergeAll(terms)

\* C13 amended: merge is commutative on (count, sum), the empty Accumulator
\* is its left and right identity, and merge is associative on count; on
\* sum it is associative only up to f64 rounding.  Every tree shape of the
\* reduce gives the same count, and as sum the f64 sum of the partial sums
\* in their order under one of the groupings.
C13_MergeIsCommutativeWithIdentity ==
    /\ \A a \in InPlay : Identity(a)
    /\ \A a, b \in InPlay : Commutative(a, b)
    /\ \A a, b, c \in InPlay :
           Merge(Merge(a, b), c).count = Merge(a, Merge(b, c)).count
    /\ Len(partials) = 1 =>
           /\ partials[1].count = SumCounts(terms)
           /\ partials[1].sum \in GroupedSums([k \in 1..Len(terms) |-> terms[k].sum])

\* C13 witness: three partial Accumulators were reduced to one whose sum is
\* not the sum of the left-to-right reduce.
C13_Witness ==
    /\ Len(terms) = 3
    /\ Len(partials) = 1
    /\ partials[1].count = MergeAll(terms).count
    /\ partials[1].sum # MergeAll(terms).sum

\* the grouped aggregation has not been entered in the current call
GroupedIdle == pc # "grouped" /\ ssegs = <<>> /\ map = <<>> /\ lock = 0

\* the current call and the one before it, made with the other value of
\* verbose, have both returned statistics
ReturnedBoth == Returned /\ prev.kind = "ok"

\* C14 as stated: with verbose = false the grouped aggregation is not
\* invoked and per_sensor is empty, and total_rows, filtered_rows and
\* average are the same with verbose = true and verbose = false.
C14_VerboseOnlyGroups ==
    /\ ~verbose => (GroupedIdle /\ per_sensor = <<>>)
    /\ (Returned /\ ~verbose) => Stats.per_sensor = <<>>
    /\ ReturnedBoth =>
           /\ Stats.total_rows = prev.value.total_rows
           /\ Stats.filtered_rows = prev.value.filtered_rows
           /\ Stats.average = prev.value.average

\* C14 amended: with verbose = false the grouped aggregation is not invoked
\* and per_sensor is empty, and total_rows, filtered_rows and the presence
\* of average are the same with verbose = true and verbose = false; the
\* value of average may differ by f64 rounding, as between any two calls.
C14_VerboseOnlyGroupsCounts ==
    /\ ~verbose => (GroupedIdle /\ per_sensor = <<>>)
    /\ (Returned /\ ~verbose) => Stats.per_sensor = <<>>
    /\ ReturnedBoth =>
           /\ Stats.total_rows = prev.value.total_rows
           /\ Stats.filtered_rows = prev.value.filtered_rows
           /\ Stats.average.some = prev.value.average.some

\* C14 witness: a call without verbose returned no per_sensor after a
\* verbose call on the same file had returned two sensors and another
\* average.
C14_Witness ==
    /\ ReturnedBoth
    /\ ~verbose
    /\ Stats.per_sensor = <<>>
    /\ Len(prev.value.per_sensor) = 2
    /\ Stats.filtered_rows = 3
    /\ Stats.average # prev.value.average

\* the closure for record k waits for the lock
Waiting(k) ==
    \E i \in 1..Len(ssegs) : ssegs[i].st = "want" /\ ssegs[i].next = k

\* process is past read_csv and has not returned
Running == pc \in {"global", "grouped", "assemble"}

\* C15: once the records are read, process returns statistics: no state
\* is reached in which the call can take no step, every closure that asks
\* for the lock gets it, every lock taken is released, and only by the
\* closure that holds it after its one update, and the map is drained only
\* when every worker has finished and the lock is free.
C15_ProcessTerminates ==
    /\ [](Running => ENABLED Step)
    /\ Running ~> Returned
    /\ \A k \in 1..MaxRecords : Waiting(k) ~> (lock = k)
    /\ \A k \in 1..MaxRecords : (lock = k) ~> (lock = 0)
    /\ [][ (lock # 0 /\ lock' = 0) =>
               \E i \in 1..Len(ssegs) :
                   ssegs[i].next = lock /\ ssegs[i].st = "updated" ]_vars
    /\ [][ (pc = "grouped" /\ pc' # "grouped") =>
               (lock = 0 /\ \A i \in 1..Len(ssegs) :
                                ssegs[i].next > ssegs[i].hi) ]_vars

\* C15 witness: a closure waits for the lock while the closure of another
\* record holds it.
C15_Witness ==
    /\ pc = "grouped"
    /\ lock # 0
    /\ \E k \in 1..MaxRecords : Waiting(k) /\ k # lock

\* C16: total_rows is the number of data rows of the file (its header not
\* counted), whatever the threshold and verbose; for a file of a header
\* alone total_rows = 0, filtered_rows = 0 and average is absent.
C16_TotalRowsIsDataRows ==
    Returned =>
        /\ Stats.total_rows = Len(file.rows)
        /\ file.rows = <<>> =>
               /\ Stats.total_rows = 0
               /\ Stats.filtered_rows = 0
               /\ Stats.average = None

\* C16 witness: a verbose call on a file of a header alone returned.
C16_Witness ==
    /\ Returned
    /\ file.openable
    /\ file.rows = <<>>
    /\ verbose
    /\ Stats.per_sensor = <<>>

=============================================================================
